---- MODULE Spec2Model ----
(***************************************************************************)
(* Model of src/main.py: the Faster Whisper HTTP service.                  *)
(*                                                                         *)
(* Threads.  transcribe_audio is an `async def` endpoint without a single  *)
(* await: it runs on the event-loop thread "ev", one request at a time.    *)
(* read_root, api_load_model and get_model_info are plain `def` endpoints: *)
(* the framework runs them on worker threads "w1", "w2", which interleave  *)
(* with each other and with the event-loop thread between any two accesses *)
(* to the module globals `model` and `model_info` (there is no lock in the *)
(* source).  The lifespan handler calls load_model() on "ev" before any    *)
(* request is served.                                                      *)
(***************************************************************************)
EXTENDS Integers, Sequences, FiniteSets, TLC

\* ------------------------------------------------------------------ bounds
MaxLoadCalls == 2      \* POST /load_model requests in a run without /transcribe
MaxReloads == 1        \* POST /load_model requests in a run with /transcribe
MaxRequests == 1       \* POST /transcribe requests in one run
MaxSegs == 2           \* segments the engine yields for one request
MaxTextLen == 2        \* characters of one segment's text

\* ------------------------------------------------------------------ inputs
Workers == {"w1", "w2"}
Threads == {"ev"} \cup Workers
Sizes == {"large-v3", "base"}        \* model_size values a client sends
Devices == {"cuda", "cpu"}           \* device values a client sends
ErrTexts == {"E1", "E2"}             \* str(e) of a failed construction
Chars == {"a", " "}                  \* characters of a segment text

VARIABLES
  model,        \* global `model`: the handle held (meaningful when bound)
  model_info,   \* global `model_info`
  bound,        \* which of the two global names are bound
  pc,           \* per thread: position in its handler
  ret,          \* per thread: who called load_model
  lm,           \* per thread: frame of load_model (arguments, e, result)
  rq,           \* locals of the /transcribe request on the event loop
  tempfiles,    \* staged files that exist, named by request number
  nreq,         \* /transcribe requests received
  ncall,        \* /load_model requests received
  resp          \* per thread: the response last sent

vars == <<model, model_info, bound, pc, ret, lm, rq, tempfiles, nreq, ncall, resp>>

\* --------------------------------------------------------------- load_model
NoHandle == [size |-> "", device |-> "", compute_type |-> "", id |-> <<"", 0>>]
NotLoaded == [size |-> "", device |-> "", loaded |-> FALSE]
NoResult == [success |-> FALSE, key |-> "", text |-> "", arg |-> ""]
NoFrame == [size |-> "", device |-> "", e |-> "", e2 |-> "", result |-> NoResult]

\* a handle is told from the others by the call that constructed it: the thread
\* and, on the event loop, the request (0: lifespan)
HandleId(t) == <<t, IF t = "ev" THEN nreq ELSE 0>>

\* WhisperModel(size, device=..., compute_type=...) when it succeeds
WhisperModel(size, device, compute_type, id) ==
  [size |-> size, device |-> device, compute_type |-> compute_type, id |-> id]

\* the device and compute_type of the first construction
TryDevice(device) == IF device = "cuda" THEN "cuda" ELSE "cpu"
TryComputeType(device) == IF device = "cuda" THEN "float16" ELSE "int8"

\* model_info and the result after the first construction succeeded
LoadedInfo(model_size, device) ==
  [size |-> model_size, device |-> TryDevice(device), loaded |-> TRUE]
LoadedResult(model_size, device) ==
  [success |-> TRUE, key |-> "message",
   text |-> IF device = "cuda" THEN "Successfully loaded GPU model: "
                               ELSE "Successfully loaded CPU model: ",
   arg |-> model_size]

\* line 63 recording the requested size instead of "small"
FallbackInfoRequestedSize(model_size) ==
  [size |-> model_size, device |-> "cpu", loaded |-> TRUE]
\* line 62-64: the fallback construction and what follows it
FallbackInfo(model_size) ==
  [size |-> "small", device |-> "cpu", loaded |-> TRUE]
FallbackResult ==
  [success |-> TRUE, key |-> "message",
   text |-> "GPU load failed, fallback to CPU model (small)", arg |-> ""]

\* line 67 reporting str(e) instead of str(e2)
DoubleFailResultFirstError(e, e2) ==
  [success |-> FALSE, key |-> "error", text |-> "Model load failed: ", arg |-> e]
\* line 67: both constructions failed: e is the first error, e2 the second
DoubleFailResult(e, e2) ==
  [success |-> FALSE, key |-> "error", text |-> "Model load failed: ", arg |-> e2]
CpuFailResult(e) ==
  [success |-> FALSE, key |-> "error", text |-> "CPU model load failed: ", arg |-> e]

\* where load_model returns to
AfterLoad(t) ==
  CASE ret[t] = "lifespan" -> "idle"
    [] ret[t] = "ensure" -> "check_load"
    [] OTHER -> "api_return"

InLoad == {"lm_try", "lm_info", "lm_fallback", "lm_fallback_info", "lm_fail2", "lm_fail_cpu"}

\* line 58 without the test of device: every failure goes on to the fallback
LmTryAlwaysFallsBack(t) ==
  /\ pc[t] = "lm_try"
  /\ \/ /\ model' = WhisperModel(lm[t].size, TryDevice(lm[t].device),
                                 TryComputeType(lm[t].device), HandleId(t))
        /\ bound' = bound \cup {"model"}
        /\ pc' = [pc EXCEPT ![t] = "lm_info"]
        /\ lm' = lm
     \/ \E e \in ErrTexts :
          /\ lm' = [lm EXCEPT ![t].e = e]
          /\ pc' = [pc EXCEPT ![t] = "lm_fallback"]
          /\ UNCHANGED <<model, bound>>
  /\ UNCHANGED <<model_info, ret, rq, tempfiles, nreq, ncall, resp>>

\* line 49 / 54: model = WhisperModel(model_size, ...), or it raises
LmTry(t) ==
  /\ pc[t] = "lm_try"
  /\ \/ /\ model' = WhisperModel(lm[t].size, TryDevice(lm[t].device),
                                 TryComputeType(lm[t].device), HandleId(t))
        /\ bound' = bound \cup {"model"}
        /\ pc' = [pc EXCEPT ![t] = "lm_info"]
        /\ lm' = lm
     \/ \E e \in ErrTexts :
          /\ lm' = [lm EXCEPT ![t].e = e]
          /\ pc' = [pc EXCEPT ![t] = IF lm[t].device = "cuda" THEN "lm_fallback"
                                                              ELSE "lm_fail_cpu"]
          /\ UNCHANGED <<model, bound>>
  /\ UNCHANGED <<model_info, ret, rq, tempfiles, nreq, ncall, resp>>

\* line 50-51 / 55-56: model_info = {...}; return success
LmInfo(t) ==
  /\ pc[t] = "lm_info"
  /\ model_info' = LoadedInfo(lm[t].size, lm[t].device)
  /\ bound' = bound \cup {"model_info"}
  /\ lm' = [lm EXCEPT ![t].result = LoadedResult(lm[t].size, lm[t].device)]
  /\ pc' = [pc EXCEPT ![t] = AfterLoad(t)]
  /\ UNCHANGED <<model, ret, rq, tempfiles, nreq, ncall, resp>>

\* line 62: model = WhisperModel("small", device="cpu", ...), or it raises e2
LmFallback(t) ==
  /\ pc[t] = "lm_fallback"
  /\ \/ /\ model' = WhisperModel("small", "cpu", "int8", HandleId(t))
        /\ bound' = bound \cup {"model"}
        /\ pc' = [pc EXCEPT ![t] = "lm_fallback_info"]
        /\ lm' = lm
     \/ \E e2 \in ErrTexts :
          /\ lm' = [lm EXCEPT ![t].e2 = e2]
          /\ pc' = [pc EXCEPT ![t] = "lm_fail2"]
          /\ UNCHANGED <<model, bound>>
  /\ UNCHANGED <<model_info, ret, rq, tempfiles, nreq, ncall, resp>>

\* line 63-64: model_info = {"small", "cpu", True}; return success
LmFallbackInfo(t) ==
  /\ pc[t] = "lm_fallback_info"
  /\ model_info' = FallbackInfo(lm[t].size)
  /\ bound' = bound \cup {"model_info"}
  /\ lm' = [lm EXCEPT ![t].result = FallbackResult]
  /\ pc' = [pc EXCEPT ![t] = AfterLoad(t)]
  /\ UNCHANGED <<model, ret, rq, tempfiles, nreq, ncall, resp>>

\* line 66 recording the fallback model as loaded although its construction raised
LmFail2MarksLoaded(t) ==
  /\ pc[t] = "lm_fail2"
  /\ model_info' = FallbackInfo(lm[t].size)
  /\ bound' = bound \cup {"model_info"}
  /\ lm' = [lm EXCEPT ![t].result = DoubleFailResult(lm[t].e, lm[t].e2)]
  /\ pc' = [pc EXCEPT ![t] = AfterLoad(t)]
  /\ UNCHANGED <<model, ret, rq, tempfiles, nreq, ncall, resp>>

\* line 66-67: model_info = not loaded; return the failure built from e2
LmFail2(t) ==
  /\ pc[t] = "lm_fail2"
  /\ model_info' = NotLoaded
  /\ bound' = bound \cup {"model_info"}
  /\ lm' = [lm EXCEPT ![t].result = DoubleFailResult(lm[t].e, lm[t].e2)]
  /\ pc' = [pc EXCEPT ![t] = AfterLoad(t)]
  /\ UNCHANGED <<model, ret, rq, tempfiles, nreq, ncall, resp>>

\* line 70 without line 69: the failure returned, model_info left as it was
LmFailCpuKeepsInfo(t) ==
  /\ pc[t] = "lm_fail_cpu"
  /\ lm' = [lm EXCEPT ![t].result = CpuFailResult(lm[t].e)]
  /\ pc' = [pc EXCEPT ![t] = AfterLoad(t)]
  /\ UNCHANGED <<model, model_info, bound, ret, rq, tempfiles, nreq, ncall, resp>>

\* line 69-70: model_info = not loaded; return the failure built from e
LmFailCpu(t) ==
  /\ pc[t] = "lm_fail_cpu"
  /\ model_info' = NotLoaded
  /\ bound' = bound \cup {"model_info"}
  /\ lm' = [lm EXCEPT ![t].result = CpuFailResult(lm[t].e)]
  /\ pc' = [pc EXCEPT ![t] = AfterLoad(t)]
  /\ UNCHANGED <<model, ret, rq, tempfiles, nreq, ncall, resp>>

\* ------------------------------------------------------- lifespan, workers
\* the server takes requests once lifespan's load_model() has returned
Started == pc["ev"] # "boot" /\ ~(ret["ev"] = "lifespan" /\ pc["ev"] \in InLoad)

Call(t, from, model_size, device) ==
  /\ lm' = [lm EXCEPT ![t] = [NoFrame EXCEPT !.size = model_size, !.device = device]]
  /\ ret' = [ret EXCEPT ![t] = from]
  /\ pc' = [pc EXCEPT ![t] = "lm_try"]

\* line 20-22: load_model() with its default arguments, before serving
Lifespan ==
  /\ pc["ev"] = "boot"
  /\ Call("ev", "lifespan", "large-v3", "cuda")
  /\ UNCHANGED <<model, model_info, bound, rq, tempfiles, nreq, ncall, resp>>

NoResp == [status |-> 0, detail |-> "", body |-> << >>]
Ok(body) == [status |-> 200, detail |-> "", body |-> <<body>>]
HTTPException(status_code, detail) == [status |-> status_code, detail |-> detail, body |-> << >>]
\* an exception no handler catches: the framework answers 500
Unhandled == [status |-> 500, detail |-> "Internal Server Error", body |-> << >>]

\* line 86-89: POST /load_model with a ModelRequest
ApiLoadModel(w, ModelSizes, max) ==
  /\ Started /\ pc[w] = "idle" /\ ncall < max
  /\ \E model_size \in ModelSizes, device \in Devices : Call(w, "api", model_size, device)
  /\ ncall' = ncall + 1
  /\ UNCHANGED <<model, model_info, bound, rq, tempfiles, nreq, resp>>

\* line 90: return result (the response body is lm[w].result); the frame is gone
ApiReturn(w) ==
  /\ pc[w] = "api_return"
  /\ pc' = [pc EXCEPT ![w] = "idle"]
  /\ lm' = [lm EXCEPT ![w] = NoFrame]
  /\ ret' = [ret EXCEPT ![w] = ""]
  /\ UNCHANGED <<model, model_info, bound, rq, tempfiles, nreq, ncall, resp>>

\* line 161-164: GET /model_info
GetModelInfo(w) ==
  /\ Started /\ pc[w] = "idle"
  /\ resp' = [resp EXCEPT ![w] = Ok(model_info)]
  /\ UNCHANGED <<model, model_info, bound, pc, ret, lm, rq, tempfiles, nreq, ncall>>

\* line 76-84: GET /, which reads the global model_info three times
\* line 81: "model_loaded": model_info["loaded"]
ReadRootLoaded(w) ==
  /\ Started /\ pc[w] = "idle"
  /\ resp' = [resp EXCEPT ![w] =
       Ok([status |-> "running", model_loaded |-> model_info.loaded, model_info |-> << >>])]
  /\ pc' = [pc EXCEPT ![w] = "root_cond"]
  /\ UNCHANGED <<model, model_info, bound, ret, lm, rq, tempfiles, nreq, ncall>>

\* line 82: ... if model_info["loaded"] else None
ReadRootCond(w) ==
  /\ pc[w] = "root_cond"
  /\ pc' = [pc EXCEPT ![w] = IF model_info.loaded THEN "root_info" ELSE "idle"]
  /\ UNCHANGED <<model, model_info, bound, ret, lm, rq, tempfiles, nreq, ncall, resp>>

\* line 82: "model_info": model_info
ReadRootInfo(w) ==
  /\ pc[w] = "root_info"
  /\ resp' = [resp EXCEPT ![w].body[1].model_info = <<model_info>>]
  /\ pc' = [pc EXCEPT ![w] = "idle"]
  /\ UNCHANGED <<model, model_info, bound, ret, lm, rq, tempfiles, nreq, ncall>>

\* ------------------------------------------------------------ the engine
\* segment texts: the strings over Chars of at most MaxTextLen characters
SeqsUpTo(S, n) == UNION {[1..k -> S] : k \in 0..n}
Texts == SeqsUpTo(Chars, MaxTextLen)
Word == [word |-> "w", start |-> 0, end |-> 1]
\* a segment the engine yields: start, end, text and, optionally, words
\* (an absent attribute, an empty list or None, or a list of words)
Segment(text) == [start |-> 0, end |-> 1, text |-> text]
SegmentW(text, words) == [start |-> 0, end |-> 1, text |-> text, words |-> words]
AllSegments ==
  {Segment(x) : x \in Texts} \cup {SegmentW(<<"a">>, ws) : ws \in {<< >>, <<Word>>}}
AllOutputs == SeqsUpTo(AllSegments, MaxSegs)
FewOutputs == {<< >>, <<Segment(<<"a">>)>>}
DetectedLanguages == {"en", "fr"}

\* ------------------------------------------------- response building (pure)
\* line 136: hasattr(segment, 'words') and segment.words
HasWords(segment) == "words" \in DOMAIN segment /\ segment.words # << >>

\* line 131-140: segment_dict
SegmentDict(segment) ==
  IF HasWords(segment)
  THEN [start |-> segment.start, end |-> segment.end, text |-> segment.text,
        words |-> [i \in DOMAIN segment.words |->
                     [word |-> segment.words[i].word,
                      start |-> segment.words[i].start,
                      end |-> segment.words[i].end]]]
  ELSE [start |-> segment.start, end |-> segment.end, text |-> segment.text]

\* line 128-141: segments_data after the loop
SegmentsData(segments_list) == [i \in DOMAIN segments_list |-> SegmentDict(segments_list[i])]

\* line 142 without the separating space
AddTextNoSeparator(full_text, segment) == full_text \o segment.text
\* line 142: what one iteration appends to full_text
AddText(full_text, segment) == full_text \o segment.text \o <<" ">>

\* line 129-142: full_text after the loop
RECURSIVE FullText(_)
FullText(segments_list) ==
  IF segments_list = << >> THEN << >>
  ELSE AddText(FullText(SubSeq(segments_list, 1, Len(segments_list) - 1)),
              segments_list[Len(segments_list)])

\* str.strip(): drop leading and trailing whitespace
IsSpace(c) == c = " "
RECURSIVE LStrip(_)
LStrip(s) == IF s # << >> /\ IsSpace(Head(s)) THEN LStrip(Tail(s)) ELSE s
RECURSIVE RStrip(_)
RStrip(s) ==
  IF s # << >> /\ IsSpace(s[Len(s)]) THEN RStrip(SubSeq(s, 1, Len(s) - 1)) ELSE s
Strip(s) == LStrip(RStrip(s))

None == "None"
\* line 114 passing the form value through, "auto" included
LangParamPassThrough(language) == language
\* line 114: lang_param = None if language == "auto" else language
LangParam(language) == IF language = "auto" THEN None ELSE language

\* ------------------------------------------------------- transcribe_audio
\* locals of the request.  created, used, fault, load_success, loaded_id, quiet and
\* ncall0 are kept for the properties: temp files this request created, the handle
\* model.transcribe was invoked on, the step that raised, load_result["success"]
\* and the handle that load constructed, whether no worker was inside load_model
\* when the request arrived, and the number of /load_model requests at that moment.
NoRq ==
  [language |-> "", word_timestamps |-> FALSE, was_loaded |-> FALSE, created |-> 0,
   lang_param |-> None, hint |-> "", used |-> NoHandle, info_language |-> "",
   segments_list |-> << >>, size |-> "", pending |-> NoResp, fault |-> "none",
   load_success |-> FALSE, loaded_id |-> <<"", 0>>,
   quiet |-> TRUE, ncall0 |-> 0]

\* line 153-155: except Exception as e: raise HTTPException(500, detail=str(e))
Except(step) == HTTPException(500, step)

\* line 93-99: a request arrives with its form fields
Receive(Languages, WordTimestamps) ==
  /\ Started /\ pc["ev"] \in {"idle", "done"} /\ nreq < MaxRequests
  /\ \E language \in Languages, word_timestamps \in WordTimestamps :
       rq' = [NoRq EXCEPT !.language = language, !.word_timestamps = word_timestamps,
                          !.quiet = \A w \in Workers : pc[w] \notin InLoad,
                          !.ncall0 = ncall]
  /\ nreq' = nreq + 1
  /\ resp' = [resp EXCEPT !["ev"] = NoResp]
  /\ pc' = [pc EXCEPT !["ev"] = "ensure"]
  /\ UNCHANGED <<model, model_info, bound, ret, lm, tempfiles, ncall>>

\* line 104 testing whether a handle is held instead of model_info["loaded"]
EnsureChecksHandle ==
  /\ pc["ev"] = "ensure"
  /\ rq' = [rq EXCEPT !.was_loaded = model_info.loaded]
  /\ IF "model" \in bound
     THEN /\ pc' = [pc EXCEPT !["ev"] = "mktemp"]
          /\ UNCHANGED <<lm, ret>>
     ELSE Call("ev", "ensure", "large-v3", "cuda")
  /\ UNCHANGED <<model, model_info, bound, tempfiles, nreq, ncall, resp>>

\* line 104-105: if not model_info["loaded"]: load_result = load_model()
Ensure ==
  /\ pc["ev"] = "ensure"
  /\ rq' = [rq EXCEPT !.was_loaded = model_info.loaded]
  /\ IF model_info.loaded
     THEN /\ pc' = [pc EXCEPT !["ev"] = "mktemp"]
          /\ UNCHANGED <<lm, ret>>
     ELSE Call("ev", "ensure", "large-v3", "cuda")
  /\ UNCHANGED <<model, model_info, bound, tempfiles, nreq, ncall, resp>>

\* CheckLoad without the test of load_result["success"]
CheckLoadIgnoresFailure ==
  /\ pc["ev"] = "check_load"
  /\ pc' = [pc EXCEPT !["ev"] = "mktemp"]
  /\ rq' = [rq EXCEPT !.load_success = lm["ev"].result.success,
                      !.loaded_id = IF lm["ev"].result.success THEN HandleId("ev")
                                                               ELSE <<"", 0>>]
  /\ lm' = [lm EXCEPT !["ev"] = NoFrame]
  /\ ret' = [ret EXCEPT !["ev"] = ""]
  /\ UNCHANGED <<model, model_info, bound, tempfiles, nreq, ncall, resp>>

\* CheckLoad with the test inverted
CheckLoadInverted ==
  /\ pc["ev"] = "check_load"
  /\ IF ~lm["ev"].result.success
     THEN /\ pc' = [pc EXCEPT !["ev"] = "mktemp"]
          /\ resp' = resp
     ELSE /\ pc' = [pc EXCEPT !["ev"] = "done"]
          /\ resp' = [resp EXCEPT !["ev"] = HTTPException(500, "Model loading failed")]
  /\ rq' = [rq EXCEPT !.load_success = lm["ev"].result.success,
                      !.loaded_id = IF lm["ev"].result.success THEN HandleId("ev")
                                                               ELSE <<"", 0>>]
  /\ lm' = [lm EXCEPT !["ev"] = NoFrame]
  /\ ret' = [ret EXCEPT !["ev"] = ""]
  /\ UNCHANGED <<model, model_info, bound, tempfiles, nreq, ncall>>

\* line 106-107: if not load_result["success"]: raise HTTPException(500, ...)
CheckLoad ==
  /\ pc["ev"] = "check_load"
  /\ IF lm["ev"].result.success
     THEN /\ pc' = [pc EXCEPT !["ev"] = "mktemp"]
          /\ resp' = resp
     ELSE /\ pc' = [pc EXCEPT !["ev"] = "done"]
          /\ resp' = [resp EXCEPT !["ev"] = HTTPException(500, "Model loading failed")]
  /\ rq' = [rq EXCEPT !.load_success = lm["ev"].result.success,
                      !.loaded_id = IF lm["ev"].result.success THEN HandleId("ev")
                                                               ELSE <<"", 0>>]
  /\ lm' = [lm EXCEPT !["ev"] = NoFrame]
  /\ ret' = [ret EXCEPT !["ev"] = ""]
  /\ UNCHANGED <<model, model_info, bound, tempfiles, nreq, ncall>>

\* line 110: temp_file = tempfile.NamedTemporaryFile(delete=False, ...); this is
\* outside the try, so an error here reaches the framework
MkTemp ==
  /\ pc["ev"] = "mktemp"
  /\ \/ /\ tempfiles' = tempfiles \cup {nreq}
        /\ rq' = [rq EXCEPT !.created = @ + 1]
        /\ pc' = [pc EXCEPT !["ev"] = "copy"]
        /\ resp' = resp
     \/ /\ rq' = [rq EXCEPT !.fault = "mktemp"]
        /\ pc' = [pc EXCEPT !["ev"] = "done"]
        /\ resp' = [resp EXCEPT !["ev"] = Unhandled]
        /\ tempfiles' = tempfiles
  /\ UNCHANGED <<model, model_info, bound, ret, lm, nreq, ncall>>

\* the except clause answering at once, the finally clause not run
RaiseSkipsFinally(step) ==
  /\ rq' = [rq EXCEPT !.fault = step, !.pending = Except(step)]
  /\ pc' = [pc EXCEPT !["ev"] = "done"]

\* a step inside the try raises: the except clause builds the error, then finally
Raise(step) ==
  /\ rq' = [rq EXCEPT !.fault = step, !.pending = Except(step)]
  /\ pc' = [pc EXCEPT !["ev"] = "finally"]

\* line 112-114: copy the upload, close, lang_param
Copy ==
  /\ pc["ev"] = "copy"
  /\ \/ /\ rq' = [rq EXCEPT !.lang_param = LangParam(rq.language)]
        /\ pc' = [pc EXCEPT !["ev"] = "infer"]
     \/ Raise("copy")
  /\ UNCHANGED <<model, model_info, bound, ret, lm, tempfiles, nreq, ncall, resp>>

\* the staged file removed as soon as model.transcribe has returned its generator
InferThenUnlink ==
  /\ pc["ev"] = "infer"
  /\ "model" \in bound
  /\ \E detected \in DetectedLanguages :
       rq' = [rq EXCEPT !.used = model, !.hint = rq.lang_param,
                        !.info_language = detected]
  /\ tempfiles' = tempfiles \ {nreq}
  /\ pc' = [pc EXCEPT !["ev"] = "materialize"]
  /\ UNCHANGED <<model, model_info, bound, ret, lm, nreq, ncall, resp>>

\* line 117-126: segments_generator, info = model.transcribe(temp_file.name, ...)
\* reads the global `model` (NameError when it was never assigned)
Infer ==
  /\ pc["ev"] = "infer"
  /\ \/ /\ "model" \in bound
        /\ \E detected \in DetectedLanguages :
             rq' = [rq EXCEPT !.used = model, !.hint = rq.lang_param,
                              !.info_language = detected]
        /\ pc' = [pc EXCEPT !["ev"] = "materialize"]
     \/ /\ "model" \in bound
        /\ rq' = [rq EXCEPT !.used = model, !.hint = rq.lang_param,
                            !.fault = "infer", !.pending = Except("infer")]
        /\ pc' = [pc EXCEPT !["ev"] = "finally"]
     \/ /\ "model" \notin bound
        /\ Raise("NameError")
  /\ UNCHANGED <<model, model_info, bound, ret, lm, tempfiles, nreq, ncall, resp>>

\* line 127: segments_list = list(segments_generator)
Materialize(Outputs) ==
  /\ pc["ev"] = "materialize"
  /\ \/ /\ \E out \in Outputs : rq' = [rq EXCEPT !.segments_list = out]
        /\ pc' = [pc EXCEPT !["ev"] = "build"]
     \/ Raise("materialize")
  /\ UNCHANGED <<model, model_info, bound, ret, lm, tempfiles, nreq, ncall, resp>>

\* line 128-148: the loop over segments_list, then the response up to
\* "model": model_info["size"]
Build ==
  /\ pc["ev"] = "build"
  /\ \/ /\ rq' = [rq EXCEPT !.size = model_info.size]
        /\ pc' = [pc EXCEPT !["ev"] = "build_device"]
     \/ Raise("build")
  /\ UNCHANGED <<model, model_info, bound, ret, lm, tempfiles, nreq, ncall, resp>>

\* line 143-152: the response
Response(language, size, device, segments_list) ==
  [success |-> TRUE, language |-> language, model |-> size, device |-> device,
   text |-> Strip(FullText(segments_list)), segments |-> SegmentsData(segments_list)]

\* line 149-152: "device": model_info["device"], text, segments; return
BuildDevice ==
  /\ pc["ev"] = "build_device"
  /\ rq' = [rq EXCEPT !.pending =
       Ok(Response(rq.info_language, rq.size, model_info.device, rq.segments_list))]
  /\ pc' = [pc EXCEPT !["ev"] = "finally"]
  /\ UNCHANGED <<model, model_info, bound, ret, lm, tempfiles, nreq, ncall, resp>>

\* a finally clause that also marks the model as not loaded after an error
FinallyMarksNotLoaded ==
  /\ pc["ev"] = "finally"
  /\ tempfiles' = tempfiles \ {nreq}
  /\ resp' = [resp EXCEPT !["ev"] = rq.pending]
  /\ model_info' = IF rq.pending.status = 200 THEN model_info ELSE NotLoaded
  /\ pc' = [pc EXCEPT !["ev"] = "done"]
  /\ UNCHANGED <<model, bound, ret, lm, rq, nreq, ncall>>

\* the removal placed at the end of the try block instead of in a finally clause
FinallyOnSuccessOnly ==
  /\ pc["ev"] = "finally"
  /\ tempfiles' = IF rq.pending.status = 200 THEN tempfiles \ {nreq} ELSE tempfiles
  /\ resp' = [resp EXCEPT !["ev"] = rq.pending]
  /\ pc' = [pc EXCEPT !["ev"] = "done"]
  /\ UNCHANGED <<model, model_info, bound, ret, lm, rq, nreq, ncall>>

\* line 156-159: finally: if os.path.exists(temp_file.name): os.unlink(...)
\* an OSError raised here replaces the pending return value or exception
Finally ==
  /\ pc["ev"] = "finally"
  /\ \/ /\ tempfiles' = tempfiles \ {nreq}
        /\ resp' = [resp EXCEPT !["ev"] = rq.pending]
        /\ rq' = rq
     \/ /\ nreq \in tempfiles
        /\ tempfiles' = tempfiles
        /\ resp' = [resp EXCEPT !["ev"] = Unhandled]
        /\ rq' = [rq EXCEPT !.fault = "unlink"]
  /\ pc' = [pc EXCEPT !["ev"] = "done"]
  /\ UNCHANGED <<model, model_info, bound, ret, lm, nreq, ncall>>

\* ------------------------------------------------------------ specification
Init ==
  /\ model = NoHandle
  /\ model_info = NotLoaded
  /\ bound = {}
  /\ pc = [t \in Threads |-> IF t = "ev" THEN "boot" ELSE "idle"]
  /\ ret = [t \in Threads |-> ""]
  /\ lm = [t \in Threads |-> NoFrame]
  /\ rq = NoRq
  /\ tempfiles = {}
  /\ nreq = 0
  /\ ncall = 0
  /\ resp = [t \in Threads |-> NoResp]

LoadStep(t) ==
  \/ LmTry(t) \/ LmInfo(t) \/ LmFallback(t) \/ LmFallbackInfo(t)
  \/ LmFail2(t) \/ LmFailCpu(t)

TranscribeStep ==
  \/ Ensure \/ CheckLoad \/ MkTemp \/ Copy \/ Infer \/ Build \/ BuildDevice \/ Finally

\* /transcribe requests on the event loop while a client posts /load_model
Next ==
  \/ Lifespan
  \/ \E t \in {"ev", "w1"} : LoadStep(t)
  \/ ApiLoadModel("w1", {"base"}, MaxReloads) \/ ApiReturn("w1")
  \/ Receive({"zh"}, {TRUE})
  \/ Materialize(FewOutputs)
  \/ TranscribeStep

Spec == Init /\ [][Next]_vars

\* one client posting /transcribe, one request at a time, with every form value
\* and engine output; the only loads are the default ones (large-v3, cuda), which
\* never take the cpu branch of line 68-70
NextSeq ==
  \/ Lifespan
  \/ LmTry("ev") \/ LmInfo("ev") \/ LmFallback("ev") \/ LmFallbackInfo("ev") \/ LmFail2("ev")
  \/ Receive({"auto", "en"}, BOOLEAN)
  \/ Materialize(AllOutputs)
  \/ TranscribeStep

SpecSeq == Init /\ [][NextSeq]_vars

\* clients posting /load_model concurrently, no /transcribe
NextLoads ==
  \/ Lifespan
  \/ \E t \in Threads : LoadStep(t)
  \/ \E w \in Workers : ApiLoadModel(w, Sizes, MaxLoadCalls) \/ ApiReturn(w)

SpecLoads == Init /\ [][NextLoads]_vars

\* the GET endpoints on a worker
GetStep(w) ==
  \/ GetModelInfo(w) \/ ReadRootLoaded(w) \/ ReadRootCond(w) \/ ReadRootInfo(w)

\* /transcribe requests on the event loop while a client polls GET / and
\* GET /model_info; the only loads are the default ones
NextFrame ==
  \/ Lifespan
  \/ LmTry("ev") \/ LmInfo("ev") \/ LmFallback("ev") \/ LmFallbackInfo("ev") \/ LmFail2("ev")
  \/ Receive({"zh"}, {TRUE})
  \/ Materialize(FewOutputs)
  \/ TranscribeStep
  \/ GetStep("w2")

SpecFrame == Init /\ [][NextFrame]_vars

\* a client posting /load_model while another polls GET / and GET /model_info
NextHealth ==
  \/ Lifespan
  \/ \E t \in {"ev", "w1"} : LoadStep(t)
  \/ ApiLoadModel("w1", {"base"}, MaxLoadCalls) \/ ApiReturn("w1")
  \/ GetStep("w2")

SpecHealth == Init /\ [][NextHealth]_vars

\* ------------------------------------------------------------- properties
Done == pc["ev"] = "done"
Succeeded == Done /\ resp["ev"].status = 200
Body == resp["ev"].body[1]
\* the request is past line 110 and before the end of the finally clause
StagedPcs == {"copy", "infer", "materialize", "build", "build_device", "finally"}
Staged == pc["ev"] \in StagedPcs
\* no /load_model call ran while the request was being handled
Undisturbed == rq.quiet /\ ncall = rq.ncall0

\* C1: a request that stages its upload creates exactly one temporary file, and
\* whether it ends in success or in an error raised while copying, in
\* model.transcribe, while materialising or while building the response, the file
\* does not exist once the request has finished (os.unlink itself not raising).
C1_TempFileRemoved ==
  /\ rq.created <= 1
  /\ Staged => rq.created = 1
  /\ (Staged /\ pc["ev"] # "finally") => nreq \in tempfiles
  /\ (Done /\ rq.created = 1 /\ rq.fault # "unlink") => nreq \notin tempfiles

C1_Witness ==
  /\ Done /\ rq.created = 1 /\ rq.fault = "materialize"
  /\ resp["ev"] = Except("materialize") /\ tempfiles = {}

\* C2: load_model(size, "cuda") whose first construction raised and whose fallback
\* construction succeeded sets model_info to {"small", "cpu", True}, whatever the
\* requested size, and returns success with the fallback message.
C2_Fallback ==
  [][\A t \in Threads :
       /\ (pc[t] = "lm_fallback" /\ pc'[t] = "lm_fallback_info") =>
            /\ lm[t].device = "cuda" /\ lm[t].e \in ErrTexts
            /\ model' = WhisperModel("small", "cpu", "int8", model'.id)
       /\ (pc[t] = "lm_fallback_info" /\ pc'[t] # "lm_fallback_info") =>
            /\ model_info' = [size |-> "small", device |-> "cpu", loaded |-> TRUE]
            /\ lm'[t].result.success
            /\ lm'[t].result.key = "message"
            /\ lm'[t].result.text = "GPU load failed, fallback to CPU model (small)"
            /\ pc'[t] \notin InLoad]_vars

C2_Witness ==
  \E w \in Workers :
    /\ pc[w] = "api_return" /\ lm[w].size = "base" /\ lm[w].device = "cuda"
    /\ lm[w].result = FallbackResult
    /\ model_info = [size |-> "small", device |-> "cpu", loaded |-> TRUE]

\* C3: load_model(size, "cuda") whose two constructions both raised sets
\* model_info.loaded to False, whatever model_info was, and returns a failure whose
\* error text is that of the second error.
C3_DoubleFailure ==
  [][\A t \in Threads :
       /\ (pc[t] = "lm_fallback" /\ pc'[t] = "lm_fail2") =>
            lm[t].device = "cuda" /\ lm[t].e \in ErrTexts /\ lm'[t].e2 \in ErrTexts
       /\ (pc[t] = "lm_fail2" /\ pc'[t] # "lm_fail2") =>
            /\ ~model_info'.loaded
            /\ ~lm'[t].result.success
            /\ lm'[t].result.key = "error"
            /\ lm'[t].result.arg = lm[t].e2
            /\ pc'[t] \notin InLoad]_vars

C3_Witness ==
  \E w \in Workers :
    /\ pc[w] = "api_return" /\ lm[w].device = "cuda"
    /\ lm[w].e = "E1" /\ lm[w].e2 = "E2"
    /\ lm[w].result = [success |-> FALSE, key |-> "error",
                       text |-> "Model load failed: ", arg |-> "E2"]
    /\ "model" \in bound /\ ~model_info.loaded

\* C4: the model size and device a /transcribe response reports are those of the
\* handle on which the request invoked model.transcribe, in every interleaving
\* with a load_model call.
C4_ReloadAtomic ==
  Succeeded => Body.model = rq.used.size /\ Body.device = rq.used.device

\* C5: once no load_model call is running, model_info.loaded implies that
\* model_info's size and device are those of the handle held in model.
C5_LoadsExclusive ==
  ((\A t \in Threads : pc[t] \notin InLoad) /\ model_info.loaded) =>
    model_info.size = model.size /\ model_info.device = model.device

\* C6: the caller receives the result the try/except produced (the success
\* response or the original error), also when removing the staged file fails.
C6_CleanupKeepsResult ==
  (Done /\ rq.created = 1) => resp["ev"] = rq.pending

\* C7: a request that found model_info not loaded and whose default load failed
\* ends at once with the fixed 500 "Model loading failed": no temporary file, no
\* copy of the upload, no call of model.transcribe.
C7_ModelUnavailable ==
  (pc["ev"] \in {"mktemp", "done"} \cup StagedPcs /\ ~rq.was_loaded /\ ~rq.load_success) =>
    /\ Done
    /\ resp["ev"] = HTTPException(500, "Model loading failed")
    /\ rq.created = 0 /\ nreq \notin tempfiles
    /\ rq.used = NoHandle /\ rq.fault = "none" /\ rq.pending = NoResp

C7_Witness ==
  /\ Done /\ ~rq.was_loaded /\ ~rq.load_success
  /\ resp["ev"] = HTTPException(500, "Model loading failed")
  /\ ~model_info.loaded

\* C8: a request that found model_info not loaded and whose default load
\* succeeded goes on in the same call: it is not answered "Model loading failed";
\* with no /load_model call in between, it invokes model.transcribe on the handle
\* that load constructed and, nothing raising, answers 200 with that handle's size
\* and device.
C8_LazyLoad ==
  (nreq >= 1 /\ ~rq.was_loaded /\ rq.load_success) =>
    /\ pc["ev"] \in {"mktemp", "done"} \cup StagedPcs
    /\ resp["ev"] # HTTPException(500, "Model loading failed")
    /\ (Undisturbed /\ rq.used # NoHandle) => rq.used.id = rq.loaded_id
    /\ (Undisturbed /\ Done /\ rq.fault = "none") =>
         /\ Succeeded
         /\ rq.used.id = rq.loaded_id
         /\ Body.model = rq.used.size /\ Body.device = rq.used.device
         /\ Body.success

C8_Witness ==
  /\ Succeeded /\ ~rq.was_loaded /\ rq.load_success /\ Undisturbed
  /\ rq.used.id = <<"ev", 1>> /\ rq.used.size = "small"
  /\ Body.model = "small" /\ Body.device = "cpu"

\* C9: with word_timestamps false no segment of the response has a words field,
\* whatever the engine yielded.
C9_NoWordsUnlessAsked ==
  (Succeeded /\ ~rq.word_timestamps) =>
    \A i \in DOMAIN Body.segments : "words" \notin DOMAIN Body.segments[i]

\* the segment texts joined by single spaces
RECURSIVE JoinBySpace(_)
JoinBySpace(texts) ==
  IF texts = << >> THEN << >>
  ELSE IF Len(texts) = 1 THEN texts[1]
  ELSE texts[1] \o <<" ">> \o JoinBySpace(Tail(texts))

\* s without its leading and trailing whitespace
Trimmed(s) ==
  LET keep == {i \in DOMAIN s : s[i] # " "}
  IN IF keep = {} THEN << >>
     ELSE LET lo == CHOOSE i \in keep : \A j \in keep : i <= j
              hi == CHOOSE i \in keep : \A j \in keep : j <= i
          IN SubSeq(s, lo, hi)

\* C10: the text of a success response is the segment texts joined by single
\* spaces, trimmed; no segment gives the empty text and an empty segment list.
C10_Concatenation ==
  Succeeded =>
    /\ Body.text = Trimmed(JoinBySpace([i \in DOMAIN rq.segments_list |->
                                          rq.segments_list[i].text]))
    /\ Len(Body.segments) = Len(rq.segments_list)
    /\ rq.segments_list = << >> => Body.text = << >> /\ Body.segments = << >>

C10_Witness ==
  /\ Succeeded /\ Len(rq.segments_list) = 2
  /\ rq.segments_list[1].text = <<"a", " ">> /\ rq.segments_list[2].text = <<" ", "a">>
  /\ Body.text = <<"a", " ", " ", " ", "a">>

\* C11: list(segments_generator) runs while the staged file exists, and the file
\* is removed only by the step that ends the request, after which nothing is read
\* from the generator: never removed between model.transcribe and the end of the
\* materialisation (complete, or cut short by an error).
C11_DrainBeforeRelease ==
  [][/\ (pc["ev"] = "materialize" /\ pc'["ev"] # "materialize") =>
          nreq \in tempfiles /\ nreq \in tempfiles'
     /\ (nreq \in tempfiles /\ nreq \notin tempfiles') =>
          /\ pc["ev"] = "finally" /\ pc'["ev"] = "done"
          /\ rq.pending.status = 200 =>
               rq.pending.body[1].segments = SegmentsData(rq.segments_list)]_vars

C11_Witness ==
  /\ Succeeded /\ rq.created = 1 /\ nreq \notin tempfiles
  /\ Len(rq.segments_list) >= 1 /\ Len(Body.segments) = Len(rq.segments_list)

\* C12 as claimed: a request reaches its terminal state only from the finally
\* clause, on every path.
C12_AlwaysCleaning ==
  [][(pc["ev"] # "done" /\ pc'["ev"] = "done") => pc["ev"] = "finally"]_vars

\* C12: a request that created its temporary file reaches its terminal state only
\* from the finally clause, whether copying, model.transcribe, the materialisation
\* or the response building raised or not; a request that fails while ensuring the
\* model or creating the file ends without a cleaning step and without a file.
C12_CleaningOnceStaged ==
  [][(pc["ev"] # "done" /\ pc'["ev"] = "done") =>
       \/ pc["ev"] = "finally" /\ rq.created = 1
       \/ pc["ev"] \in {"check_load", "mktemp"} /\ rq'.created = 0
                                                /\ resp'["ev"].status = 500]_vars

C12_Witness ==
  /\ Done /\ rq.created = 1 /\ rq.fault = "copy" /\ resp["ev"] = Except("copy")
  /\ nreq \notin tempfiles

\* C13: in every reachable state, model_info.loaded implies that model holds a
\* handle a successful construction assigned to it.
C13_LoadedImpliesHandle ==
  model_info.loaded =>
    /\ "model" \in bound
    /\ model # NoHandle
    /\ model.id[1] \in Threads
    /\ model.compute_type \in {"float16", "int8"}

C13_Witness ==
  /\ model_info.loaded /\ model.id = <<"w1", 0>> /\ model.device = "cpu"
  /\ pc["ev"] = "infer"

\* C14: whenever the handler invokes model.transcribe, model_info.loaded is true
\* at that moment, in every interleaving with load_model calls.
C14_NoInferenceWhileNotReady ==
  [][(pc["ev"] = "infer" /\ pc'["ev"] # "infer" /\ rq'.used # NoHandle) =>
       model_info.loaded]_vars

\* the step of thread t with which its load_model call returns
Returns(t) == pc[t] \in InLoad /\ pc'[t] \notin InLoad

\* C15: every load_model call, whatever the device and whichever constructions
\* raise, ends by assigning model_info and returning a result (none of its steps
\* leaves the call otherwise) whose success flag is false exactly when the
\* model_info it assigned is not loaded.
C15_StructuredResult ==
  [][\A t \in Threads :
       /\ (pc[t] \in InLoad /\ pc'[t] # pc[t]) =>
            \/ pc'[t] \in InLoad /\ model_info' = model_info
            \/ Returns(t)
       /\ Returns(t) =>
            /\ pc'[t] = AfterLoad(t)
            /\ model_info' \in {LoadedInfo(lm[t].size, lm[t].device),
                                [size |-> "small", device |-> "cpu", loaded |-> TRUE],
                                [size |-> "", device |-> "", loaded |-> FALSE]}
            /\ "model_info" \in bound'
            /\ lm'[t].result.key = (IF lm'[t].result.success THEN "message" ELSE "error")
            /\ lm'[t].result.success = model_info'.loaded]_vars

C15_Witness ==
  /\ pc["w1"] = "api_return" /\ ~lm["w1"].result.success /\ lm["w1"].device = "cpu"
  /\ pc["w2"] = "api_return" /\ lm["w2"].result.success /\ lm["w2"].device = "cuda"

\* C16: load_model(size, "cpu") attempts one construction, of the requested size
\* on cpu with int8; it never enters the fallback; when the construction raises,
\* model_info becomes not loaded and the failure carries that error's text; when
\* it succeeds, model_info becomes {size, "cpu", True}.
C16_CpuDirect ==
  [][\A t \in Threads : lm[t].device = "cpu" =>
       /\ pc'[t] \notin {"lm_fallback", "lm_fallback_info", "lm_fail2"}
       /\ (pc[t] = "lm_try" /\ pc'[t] # "lm_try") =>
            \/ /\ pc'[t] = "lm_info"
               /\ model' = WhisperModel(lm[t].size, "cpu", "int8", model'.id)
            \/ /\ pc'[t] = "lm_fail_cpu" /\ lm'[t].e \in ErrTexts
               /\ model' = model
       /\ (pc[t] = "lm_info" /\ pc'[t] # "lm_info") =>
            /\ model_info' = [size |-> lm[t].size, device |-> "cpu", loaded |-> TRUE]
            /\ lm'[t].result.success /\ Returns(t)
       /\ (pc[t] = "lm_fail_cpu" /\ pc'[t] # "lm_fail_cpu") =>
            /\ ~model_info'.loaded
            /\ ~lm'[t].result.success /\ lm'[t].result.arg = lm[t].e
            /\ Returns(t)]_vars

C16_Witness ==
  \E w \in Workers :
    /\ pc[w] = "api_return" /\ lm[w].device = "cpu" /\ lm[w].size = "base"
    /\ lm[w].result = [success |-> FALSE, key |-> "error",
                       text |-> "CPU model load failed: ", arg |-> "E2"]
    /\ ~model_info.loaded /\ lm[w].e2 = ""

\* C17: with language "auto", model.transcribe is called with language=None and
\* the response's language is the engine's info.language; with any other value
\* the engine receives exactly that value.
C17_LanguageHint ==
  /\ rq.used # NoHandle =>
       /\ rq.language = "auto" => rq.hint = None
       /\ rq.language # "auto" => rq.hint = rq.language
  /\ Succeeded => Body.language = rq.info_language

C17_Witness ==
  /\ Succeeded /\ rq.language = "auto" /\ rq.hint = None
  /\ rq.info_language = "fr" /\ Body.language = "fr"

\* a complete GET / response of worker w
RootDone(w) ==
  pc[w] = "idle" /\ resp[w].status = 200 /\ "model_loaded" \in DOMAIN resp[w].body[1]

\* C18: model and model_info change only in steps of load_model; a /transcribe
\* request that found model_info loaded runs no such step, nor do GET / and
\* GET /model_info, whether the request succeeds or fails.
C18_OnlyLoadMutates ==
  [][(model' # model \/ model_info' # model_info \/ bound' # bound) =>
       \E t \in Threads :
         /\ pc[t] \in InLoad /\ pc'[t] # pc[t]
         /\ t = "ev" => (ret["ev"] = "lifespan" \/ ~rq.was_loaded)]_vars

C18_Witness ==
  /\ Done /\ rq.was_loaded /\ rq.fault = "infer" /\ resp["ev"] = Except("infer")
  /\ RootDone("w2") /\ resp["w2"].body[1].model_info = <<model_info>>
  /\ model_info.loaded /\ model.id = <<"ev", 0>>

\* C19: in a complete GET / response model_info is null exactly when model_loaded
\* is false, and a model_info it carries has loaded true, in every interleaving
\* with a load_model call.
C19_HealthConsistent ==
  \A w \in Workers : RootDone(w) =>
    LET body == resp[w].body[1]
    IN /\ (body.model_info = << >>) <=> ~body.model_loaded
       /\ body.model_info # << >> => body.model_info[1].loaded

\* C20: a request that finds model_info not loaded (as a failed reload leaves it,
\* an earlier handle still held) first calls load_model("large-v3", "cuda"); with
\* no /load_model call during the request, it invokes model.transcribe only on the
\* handle that call constructed, never on the earlier one, and when that call
\* fails the request fails without any inference.
C20_StaleHandleUnused ==
  (nreq >= 1 /\ ~rq.was_loaded) =>
    /\ (pc["ev"] \in InLoad /\ ret["ev"] = "ensure") =>
         lm["ev"].size = "large-v3" /\ lm["ev"].device = "cuda"
    /\ (Undisturbed /\ rq.used # NoHandle) =>
         /\ rq.load_success
         /\ rq.used.id = <<"ev", nreq>>
         /\ <<rq.used.size, rq.used.device>> \in
              {<<"large-v3", "cuda">>, <<"small", "cpu">>}
    /\ (pc["ev"] \in {"mktemp", "done"} \cup StagedPcs /\ ~rq.load_success) =>
         rq.used = NoHandle /\ Done /\ resp["ev"].status = 500

\* the lifespan handle is still held, the reload failed, the request's load failed
C20_Witness ==
  /\ Done /\ ~rq.was_loaded /\ ~rq.load_success /\ Undisturbed /\ rq.ncall0 = 1
  /\ model.id = <<"ev", 0>> /\ ~model_info.loaded
  /\ rq.used = NoHandle /\ resp["ev"] = HTTPException(500, "Model loading failed")

====
